---------------------------- MODULE Spec2Model ----------------------------
(***************************************************************************)
(* Model of the dataset analyzer: the exhaustive (n1 * n2) / n3 search of  *)
(* DatasetAnalyzer._find_best_combination, the statistics of               *)
(* DatasetAnalyzer._calculate_statistical_metrics, and the pipeline of     *)
(* DatasetAnalyzer.analyze as run by main().                               *)
(*                                                                         *)
(* Python floats are modelled as exact rationals <<num, den>> in lowest    *)
(* terms with den > 0; float("inf") is <<1, 0>> and None is <<>>.          *)
(* A raised Python exception is modelled by its class name.                *)
(***************************************************************************)
EXTENDS Integers, Sequences, FiniteSets, TLC

\* ----------------------------------------------------------------- bounds
\* Longest pool handed to the search.
MaxLen == 3
\* Longest error list handed to the statistics.
MaxErrors == 4

\* Values a pool of the search draws from, and the targets it is run with.
PoolValues == {-2, 0, 2, 5, 10}
Targets == {-4, 0, 1, 4}
\* Values an error list of the statistics draws from: 0.8, 1.2, 1.5, 2.3.
ErrorValues == {<<4, 5>>, <<6, 5>>, <<3, 2>>, <<23, 10>>}

\* ------------------------------------------------------- float arithmetic
None == <<>>

Abs(x) == IF x < 0 THEN -x ELSE x

RECURSIVE GCD(_, _)
GCD(a, b) == IF b = 0 THEN a ELSE GCD(b, a % b)

\* The rational n / d in lowest terms with a positive denominator; a zero d
\* gives the IEEE values inf <<1, 0>>, -inf <<-1, 0>> and nan <<0, 0>>.
Rat(n, d) ==
    LET g == GCD(Abs(n), Abs(d))
        s == IF d < 0 THEN -1 ELSE 1
    IN  IF g = 0 THEN <<0, 0>> ELSE <<(s * n) \div g, (s * d) \div g>>

Float(n) == <<n, 1>>
Inf == <<1, 0>>

FMul(a, b) == Rat(a[1] * b[1], a[2] * b[2])
\* a / b for b # 0 (Python raises ZeroDivisionError when b = 0).
FDiv(a, b) == Rat(a[1] * b[2], a[2] * b[1])
FAdd(a, b) == Rat(a[1] * b[2] + b[1] * a[2], a[2] * b[2])
FSub(a, b) == Rat(a[1] * b[2] - b[1] * a[2], a[2] * b[2])
FAbs(a) == <<Abs(a[1]), a[2]>>
\* a < b; also right when either side is float("inf").
FLess(a, b) == a[1] * b[2] < b[1] * a[2]
IsZero(a) == a[1] = 0

\* ------------------------------------------------ _find_best_combination
\* The triple itertools.product(numbers, repeat=3) yields at position k
\* (k = 0 first): the last component varies fastest.
ProductAt(nums, k) ==
    LET n == Len(nums)
    IN  <<nums[(k \div (n * n)) + 1],
          nums[((k \div n) % n) + 1],
          nums[(k % n) + 1]>>

ProductSize(nums) == Len(nums) * Len(nums) * Len(nums)

\* A guard that tests the wrong component of the triple.
SkipTripleOnFirst(n1, n2, n3) == IsZero(n1)

\* if n3 == 0: continue
SkipTriple(n1, n2, n3) == IsZero(n3)

\* result = (n1 * n2) / n3
ResultOf(n1, n2, n3) == FDiv(FMul(n1, n2), n3)

\* error = abs(result - target) / target * 100
ErrorOf(result, tgt) == FMul(FDiv(FAbs(FSub(result, tgt)), tgt), Float(100))

\* Comparisons that are not the strict "lower than".
ImprovesOrTies(error, best) == ~FLess(best, error)
ImprovesWhenHigher(error, best) == best = Inf \/ FLess(best, error)

\* if error < best_error
Improves(error, best) == FLess(error, best)

\* The local state of one call before the loop starts.
InitialBest == [best_error |-> Inf, best_result |-> None,
                best_combination |-> None, exc |-> "none"]

\* One pass through the body of the for loop on triple t, from the locals b.
LoopBody(b, t, tgt) ==
    IF SkipTriple(t[1], t[2], t[3]) THEN b
    ELSE IF IsZero(t[3]) \/ IsZero(tgt) THEN [b EXCEPT !.exc = "ZeroDivisionError"]
    ELSE LET result == ResultOf(t[1], t[2], t[3])
             error == ErrorOf(result, tgt)
         IN  IF Improves(error, b.best_error)
             THEN [b EXCEPT !.best_error = error, !.best_result = result,
                            !.best_combination = t]
             ELSE b

\* The locals after the triples at positions k .. end have been run from b;
\* an exception ends the loop.
RECURSIVE RunLoop(_, _, _, _)
RunLoop(b, nums, tgt, k) ==
    IF k >= ProductSize(nums) \/ b.exc # "none" THEN b
    ELSE RunLoop(LoopBody(b, ProductAt(nums, k), tgt), nums, tgt, k + 1)

\* The whole call: what it returns, or the exception it raises.
find_best_combination(nums, tgt) ==
    LET b == RunLoop(InitialBest, nums, tgt, 0)
    IN  IF b.exc # "none" THEN [exc |-> b.exc, value |-> None]
        ELSE [exc |-> "none",
              value |-> <<b.best_result, b.best_error, b.best_combination>>]


\* ---------------------------------------- _calculate_statistical_metrics
RECURSIVE Sum(_)
Sum(s) == IF s = <<>> THEN Float(0) ELSE FAdd(Head(s), Sum(Tail(s)))

\* s with x put before its first element that is greater than x.
RECURSIVE Insert(_, _)
Insert(s, x) ==
    IF s = <<>> THEN <<x>>
    ELSE IF FLess(x, Head(s)) THEN <<x>> \o s
    ELSE <<Head(s)>> \o Insert(Tail(s), x)

\* sorted(errors)
RECURSIVE Sorted(_)
Sorted(s) == IF s = <<>> THEN <<>> ELSE Insert(Sorted(Tail(s)), Head(s))

\* statistics.mean raises StatisticsError on no data.
NoData(errors) == Len(errors) < 1

\* The population statistics' requirement, where the sample's is meant.
TooFewForPopulation(errors) == Len(errors) < 1

\* statistics.stdev and statistics.variance raise StatisticsError on fewer
\* than two data points.
TooFewForSample(errors) == Len(errors) < 2

statistics_mean(errors) == FDiv(Sum(errors), Float(Len(errors)))

\* The middle value; the average of the two middle values for an even count.
statistics_median(errors) ==
    LET a == Sorted(errors)
        n == Len(errors)
    IN  IF n % 2 = 1 THEN a[(n \div 2) + 1]
        ELSE FDiv(FAdd(a[n \div 2], a[(n \div 2) + 1]), Float(2))

\* The population variance: the squared deviations from the mean over n.
statistics_pvariance(errors) ==
    LET m == FDiv(Sum(errors), Float(Len(errors)))
        sq == [i \in DOMAIN errors |-> FMul(FSub(errors[i], m), FSub(errors[i], m))]
    IN  FDiv(Sum(sq), Float(Len(errors)))

\* The sample variance: the squared deviations from the mean over n - 1.
statistics_variance(errors) ==
    LET m == statistics_mean(errors)
        sq == [i \in DOMAIN errors |-> FMul(FSub(errors[i], m), FSub(errors[i], m))]
    IN  FDiv(Sum(sq), Float(Len(errors) - 1))

\* The square root of the sample variance, kept symbolic.
statistics_stdev(errors) == <<"sqrt", statistics_variance(errors)>>

\* min(errors)
py_min(errors) == Sorted(errors)[1]
\* The last element of the list as it was given, where its largest is meant.
LastOf(errors) == errors[Len(errors)]

\* max(errors)
py_max(errors) == Sorted(errors)[Len(errors)]

\* np.percentile(errors, q): linear interpolation between the closest ranks
\* of the sorted data, at the rank (n - 1) * q / 100 counted from 0.
np_percentile(errors, q) ==
    LET a == Sorted(errors)
        n == Len(errors)
        lo == ((n - 1) * q) \div 100
        hi == IF lo + 1 < n THEN lo + 1 ELSE lo
        frac == Rat((n - 1) * q - 100 * lo, 100)
    IN  FAdd(a[lo + 1], FMul(frac, FSub(a[hi + 1], a[lo + 1])))

Q1_PERCENTILE == 25
Q3_PERCENTILE == 75

\* The whole call: the dictionary it returns, or the exception it raises.
calculate_statistical_metrics(errors) ==
    IF NoData(errors) \/ TooFewForSample(errors)
    THEN [exc |-> "StatisticsError", value |-> None]
    ELSE [exc |-> "none",
          value |-> [mean |-> statistics_mean(errors),
                     median |-> statistics_median(errors),
                     std_dev |-> statistics_stdev(errors),
                     variance |-> statistics_variance(errors),
                     min |-> py_min(errors),
                     max |-> py_max(errors),
                     range |-> FSub(py_max(errors), py_min(errors)),
                     q1 |-> np_percentile(errors, Q1_PERCENTILE),
                     q3 |-> np_percentile(errors, Q3_PERCENTILE),
                     iqr |-> FSub(np_percentile(errors, Q3_PERCENTILE),
                                  np_percentile(errors, Q1_PERCENTILE))]]

ToFloats(s) == [i \in DOMAIN s |-> Float(s[i])]

RECURSIVE SeqsUpTo(_, _)
SeqsUpTo(S, n) ==
    IF n = 0 THEN {<<>>}
    ELSE LET shorter == SeqsUpTo(S, n - 1)
         IN  shorter \cup {Append(s, x) : s \in {q \in shorter : Len(q) = n - 1}, x \in S}

\* ------------------------------------------------------------- analyze
\* ErrorThreshold
EXCEPTIONAL == 1
SUPERIOR == 5
SATISFACTORY == 10
\* CSVIndex.SETS_COUNT
SETS_COUNT == 8

\* chr(65 + i // COLUMN_STEP) for the i-th pair of columns, counted from 1.
SetNames == <<"A", "B", "C", "D", "E", "F", "G", "H">>

\* A cell of the CSV file that holds no number (pd.notna(val) is false).
Blank == <<>>

\* What a column of the CSV file may hold: the target cell and the cells from
\* DATA_START_ROW on. Against the target 200 the pools give the errors 0.5,
\* 1.0, 5.0, 10.0 and 15.0; the others are a negative target (error -1.0), a
\* zero target, an all-zero pool and a column without numbers.
Columns ==
    {[target |-> 200, cells |-> <<Float(0), Float(199)>>],
     [target |-> 200, cells |-> <<Float(198), Blank>>],
     [target |-> 200, cells |-> <<Float(190), Float(190)>>],
     [target |-> 200, cells |-> <<Blank, Float(180)>>],
     [target |-> 200, cells |-> <<Float(170)>>],
     [target |-> -200, cells |-> <<Float(-198)>>],
     [target |-> 0, cells |-> <<Float(0), Float(199)>>],
     [target |-> 200, cells |-> <<Float(0), Float(0)>>],
     [target |-> 200, cells |-> <<Blank, Blank>>]}

\* The files the analyzer is run on: every column is one of two kinds.
CsvFiles ==
    UNION {{[i \in 1 .. SETS_COUNT |-> IF i \in S THEN a ELSE b] :
                S \in SUBSET (1 .. SETS_COUNT)} : a \in Columns, b \in Columns}

\* if pd.notna(val) and val != "": numbers.append(float(val))
RECURSIVE NumbersOf(_)
NumbersOf(cells) ==
    IF cells = <<>> THEN <<>>
    ELSE IF Head(cells) = Blank THEN NumbersOf(Tail(cells))
    ELSE <<Head(cells)>> \o NumbersOf(Tail(cells))

\* datasets[set_name] = {"target": target, "numbers": numbers}, for the
\* SETS_COUNT columns in order.
parse_dataset(file) ==
    [i \in 1 .. SETS_COUNT |->
        [set_name |-> SetNames[i],
         target |-> Float(file[i].target),
         numbers |-> NumbersOf(file[i].cells)]]

\* A count that also takes the errors equal to the threshold.
RECURSIVE CountAtMost(_, _)
CountAtMost(errs, threshold) ==
    IF errs = <<>> THEN 0
    ELSE (IF FLess(Float(threshold), Head(errs)) THEN 0 ELSE 1)
         + CountAtMost(Tail(errs), threshold)

\* sum(1 for e in all_errors if e < threshold)
RECURSIVE CountBelow(_, _)
CountBelow(errs, threshold) ==
    IF errs = <<>> THEN 0
    ELSE (IF FLess(Head(errs), Float(threshold)) THEN 1 ELSE 0)
         + CountBelow(Tail(errs), threshold)

\* f"{x:.1f}" of a non-negative x, as a whole number of tenths: the nearest
\* tenth, the even one when x is halfway between two.
Format1f(x) ==
    LET n == x[1] * 10
        q == n \div x[2]
        r == n % x[2]
    IN  IF 2 * r < x[2] THEN q
        ELSE IF 2 * r > x[2] THEN q + 1
        ELSE IF q % 2 = 0 THEN q ELSE q + 1

\* A row of tolerance_table: the count, the denominator printed after "/"
\* and the percentage printed in brackets.
ToleranceRow(interval, errs) ==
    [threshold |-> interval[1],
     count |-> interval[2],
     out_of |-> SETS_COUNT,
     percent |-> Format1f(FMul(FDiv(Float(interval[2]), Float(Len(errs))), Float(100)))]

\* A rating whose thresholds are inclusive.
ReliabilityInclusive(max_error) ==
    IF ~FLess(Float(EXCEPTIONAL), max_error) THEN "Exceptional"
    ELSE IF ~FLess(Float(SUPERIOR), max_error) THEN "Superior"
    ELSE IF ~FLess(Float(SATISFACTORY), max_error) THEN "Satisfactory"
    ELSE "Limited"

\* if metrics["max"] < EXCEPTIONAL ... elif ... else
Reliability(max_error) ==
    IF FLess(max_error, Float(EXCEPTIONAL)) THEN "Exceptional"
    ELSE IF FLess(max_error, Float(SUPERIOR)) THEN "Superior"
    ELSE IF FLess(max_error, Float(SATISFACTORY)) THEN "Satisfactory"
    ELSE "Limited"

VARIABLES
    numbers,            \* the pool of the running search (floats)
    target,             \* its target (float)
    k,                  \* how many triples the for loop has drawn
    cur,                \* the triple the loop body is running on
    best,               \* best_error, best_result, best_combination
    spc,                \* where the search is: for, guard, score, returned, raised
    ret,                \* what the search returned
    df,                 \* self.df: the columns read from the CSV file
    datasets,           \* analyze's datasets
    errors,             \* the argument of the statistics call
    stats,              \* what the statistics call returned or raised
    stpc,               \* where the statistics call is: call, done
    results,            \* self.results, in insertion order
    all_errors,         \* analyze's all_errors
    metrics,            \* analyze's metrics
    confidence_intervals,
    tolerance_table,
    reliability,
    apc,                \* where analyze is
    exc,                \* the exception that left analyze
    mpc                 \* where main is

searchVars == <<numbers, target, k, cur, best, spc, ret>>
statsVars == <<errors, stats, stpc>>
analyzeVars == <<df, datasets, results, all_errors, metrics, confidence_intervals,
                 tolerance_table, reliability, apc, exc, mpc>>
vars == <<searchVars, statsVars, analyzeVars>>

SearchIdle ==
    /\ numbers = <<>> /\ target = Float(1) /\ k = 0 /\ cur = None
    /\ best = InitialBest /\ spc = "idle" /\ ret = None
StatsIdle == errors = <<>> /\ stats = None /\ stpc = "idle"
AnalyzeIdle ==
    /\ df = <<>> /\ datasets = <<>>
    /\ results = <<>> /\ all_errors = <<>> /\ metrics = None
    /\ confidence_intervals = <<>> /\ tolerance_table = <<>>
    /\ reliability = None /\ apc = "idle" /\ exc = "none" /\ mpc = "idle"

\* ------------------------------------------- the search, statement by statement
SearchInit ==
    /\ numbers \in {ToFloats(s) : s \in SeqsUpTo(PoolValues, MaxLen)}
    /\ target \in {Float(t) : t \in Targets}
    /\ k = 0
    /\ cur = None
    /\ best = InitialBest
    /\ spc = "for"
    /\ ret = None
    /\ StatsIdle /\ AnalyzeIdle

\* for n1, n2, n3 in itertools.product(numbers, repeat=3): the next triple
ForNext ==
    /\ spc = "for"
    /\ k < ProductSize(numbers)
    /\ cur' = ProductAt(numbers, k)
    /\ k' = k + 1
    /\ spc' = "guard"
    /\ UNCHANGED <<numbers, target, best, ret, statsVars, analyzeVars>>

\* if n3 == 0: continue
Guard ==
    /\ spc = "guard"
    /\ spc' = IF SkipTriple(cur[1], cur[2], cur[3]) THEN "for" ELSE "score"
    /\ UNCHANGED <<numbers, target, k, cur, best, ret, statsVars, analyzeVars>>

\* result = ...; error = ...; if error < best_error: ...
Score ==
    /\ spc = "score"
    /\ best' = LoopBody(best, cur, target)
    /\ spc' = IF best'.exc # "none" THEN "raised" ELSE "for"
    /\ UNCHANGED <<numbers, target, k, cur, ret, statsVars, analyzeVars>>

\* return best_result, best_error, best_combination
Return ==
    /\ spc = "for"
    /\ k = ProductSize(numbers)
    /\ ret' = <<best.best_result, best.best_error, best.best_combination>>
    /\ spc' = "returned"
    /\ UNCHANGED <<numbers, target, k, cur, best, statsVars, analyzeVars>>

SearchNext == ForNext \/ Guard \/ Score \/ Return

SpecSearch == SearchInit /\ [][SearchNext]_vars

\* --------------------------------------------- the statistics, as one call
StatsInit ==
    /\ errors \in SeqsUpTo(ErrorValues, MaxErrors)
    /\ stats = None
    /\ stpc = "call"
    /\ SearchIdle /\ AnalyzeIdle

CalculateStatisticalMetrics ==
    /\ stpc = "call"
    /\ stats' = calculate_statistical_metrics(errors)
    /\ stpc' = "done"
    /\ UNCHANGED <<errors, searchVars, analyzeVars>>

StatsNext == CalculateStatisticalMetrics

SpecStats == StatsInit /\ [][StatsNext]_vars

\* ------------------------------------------------ main() running analyze()
Init ==
    /\ df = <<>> /\ datasets = <<>>
    /\ results = <<>> /\ all_errors = <<>> /\ metrics = None
    /\ confidence_intervals = <<>> /\ tolerance_table = <<>>
    /\ reliability = None /\ apc = "idle" /\ exc = "none"
    /\ mpc = "try"
    /\ SearchIdle /\ StatsIdle

\* analyzer = DatasetAnalyzer("data/dataset.csv"): pd.read_csv finds the
\* file or raises FileNotFoundError, which main reports without re-raising.
Construct ==
    /\ mpc = "try"
    /\ \/ \E file \in CsvFiles :
             /\ df' = file
             /\ mpc' = "analyze" /\ apc' = "parse" /\ exc' = exc
       \/ /\ mpc' = "returned" /\ exc' = "FileNotFoundError"
          /\ UNCHANGED <<df, apc>>
    /\ UNCHANGED <<datasets, results, all_errors, metrics, confidence_intervals,
                   tolerance_table, reliability, searchVars, statsVars>>

\* datasets = self._parse_dataset()
AnalyzeParse ==
    /\ apc = "parse"
    /\ datasets' = parse_dataset(df)
    /\ apc' = "loop"
    /\ UNCHANGED <<df, results, all_errors, metrics, confidence_intervals,
                   tolerance_table, reliability, exc, mpc, searchVars, statsVars>>

\* One pass of "for set_name, data in datasets.items()": the search, the
\* unpacking of what it returned, self.results[set_name] and all_errors.
AnalyzeDataset ==
    /\ apc = "loop"
    /\ Len(all_errors) < Len(datasets)
    /\ LET data == datasets[Len(all_errors) + 1]
           set_name == data.set_name
           call == find_best_combination(data.numbers, data.target)
       IN  IF call.exc # "none"
           THEN /\ exc' = call.exc /\ apc' = "raised"
                /\ UNCHANGED <<results, all_errors>>
           ELSE IF call.value[3] = None
           THEN \* (n1, n2, n3) = None cannot be unpacked
                /\ exc' = "TypeError" /\ apc' = "raised"
                /\ UNCHANGED <<results, all_errors>>
           ELSE /\ results' = Append(results,
                                     [set_name |-> set_name,
                                      target |-> data.target,
                                      result |-> call.value[1],
                                      error |-> call.value[2]])
                /\ all_errors' = Append(all_errors, call.value[2])
                /\ UNCHANGED <<exc, apc>>
    /\ UNCHANGED <<df, datasets, metrics, confidence_intervals, tolerance_table, reliability,
                   mpc, searchVars, statsVars>>

\* STEP 2: metrics = self._calculate_statistical_metrics(all_errors)
AnalyzeStatistics ==
    /\ apc = "loop"
    /\ Len(all_errors) = Len(datasets)
    /\ LET call == calculate_statistical_metrics(all_errors)
       IN  IF call.exc # "none"
           THEN /\ exc' = call.exc /\ apc' = "raised" /\ metrics' = metrics
           ELSE /\ metrics' = call.value /\ apc' = "precision" /\ exc' = exc
    /\ UNCHANGED <<df, datasets, results, all_errors, confidence_intervals,
                   tolerance_table, reliability, mpc, searchVars, statsVars>>

\* STEP 3: confidence_intervals and tolerance_table
AnalyzePrecision ==
    /\ apc = "precision"
    /\ confidence_intervals' =
          <<<<EXCEPTIONAL, CountBelow(all_errors, EXCEPTIONAL)>>,
            <<SUPERIOR, CountBelow(all_errors, SUPERIOR)>>,
            <<SATISFACTORY, CountBelow(all_errors, SATISFACTORY)>>>>
    /\ tolerance_table' =
          [r \in 1 .. 3 |-> ToleranceRow(confidence_intervals'[r], all_errors)]
    /\ apc' = "conclusion"
    /\ UNCHANGED <<df, datasets, results, all_errors, metrics, reliability, exc, mpc,
                   searchVars, statsVars>>

\* STEP 4: the reliability rating
AnalyzeConclusion ==
    /\ apc = "conclusion"
    /\ reliability' = Reliability(metrics.max)
    /\ apc' = "done"
    /\ UNCHANGED <<df, datasets, results, all_errors, metrics, confidence_intervals,
                   tolerance_table, exc, mpc, searchVars, statsVars>>

\* analyze() returned: main returns.
MainReturn ==
    /\ mpc = "analyze" /\ apc = "done"
    /\ mpc' = "returned"
    /\ UNCHANGED <<df, datasets, results, all_errors, metrics, confidence_intervals,
                   tolerance_table, reliability, apc, exc, searchVars, statsVars>>

\* except Exception as e: print, then raise
MainExcept ==
    /\ mpc = "analyze" /\ apc = "raised"
    /\ mpc' = "raised"
    /\ UNCHANGED <<df, datasets, results, all_errors, metrics, confidence_intervals,
                   tolerance_table, reliability, apc, exc, searchVars, statsVars>>

Next ==
    \/ Construct
    \/ AnalyzeParse
    \/ AnalyzeDataset
    \/ AnalyzeStatistics
    \/ AnalyzePrecision
    \/ AnalyzeConclusion
    \/ MainReturn
    \/ MainExcept

Spec == Init /\ [][Next]_vars

\* ------------------------------------------------------ properties: search
\* The percentage error of a triple as the specification writes it:
\* |(n1 * n2) / n3 - target| / target * 100.
TripleError(t, tgt) ==
    FMul(FDiv(FAbs(FSub(FDiv(FMul(t[1], t[2]), t[3]), tgt)), tgt), Float(100))

Index == 1 .. Len(numbers)
IndexTriples == Index \X Index \X Index
TripleOf(i) == <<numbers[i[1]], numbers[i[2]], numbers[i[3]]>>
\* The triples the specification scores: those whose n3 is not zero.
Usable == {i \in IndexTriples : ~IsZero(numbers[i[3]])}
\* Product order: n1 outermost, n2 middle, n3 innermost, each in list order.
Before(i, j) ==
    \/ i[1] < j[1]
    \/ i[1] = j[1] /\ i[2] < j[2]
    \/ i[1] = j[1] /\ i[2] = j[2] /\ i[3] < j[3]

NormalCall == Len(numbers) > 0 /\ ~IsZero(target)

C2_ErrorNonNegative ==
    (spc = "returned" /\ NormalCall) => ~FLess(ret[2], Float(0))

\* C3: among the triples with the minimal error the first in product order is
\* returned; for numbers = [2, 5, 10] and target = 1.0 that is result 1.0,
\* error 0.0, combination (2, 5, 10).
C3_FirstMinimumWins ==
    /\ (spc = "returned" /\ ret[3] # None) =>
          \E i \in Usable :
              /\ ret[3] = TripleOf(i)
              /\ ret[2] = TripleError(TripleOf(i), target)
              /\ ret[1] = FDiv(FMul(numbers[i[1]], numbers[i[2]]), numbers[i[3]])
              /\ \A j \in Usable :
                    Before(j, i) => TripleError(TripleOf(j), target) # ret[2]
    /\ (spc = "returned" /\ numbers = ToFloats(<<2, 5, 10>>) /\ target = Float(1)) =>
          ret = <<Float(1), Float(0), ToFloats(<<2, 5, 10>>)>>

\* C3 witness: the call on [2, 5, 10] with target 1.0 returned (2, 5, 10)
\* although the later triple (5, 2, 10) has the same error.
C3_Witness ==
    /\ spc = "returned" /\ numbers = ToFloats(<<2, 5, 10>>) /\ target = Float(1)
    /\ ret[3] = ToFloats(<<2, 5, 10>>)
    /\ TripleError(ToFloats(<<5, 2, 10>>), target) = ret[2]

\* C4: a triple whose n3 is 0 is never scored and never selected.
C4_ZeroDivisorNeverUsed ==
    /\ spc = "score" => ~IsZero(cur[3])
    /\ best.best_combination # None => ~IsZero(best.best_combination[3])
    /\ (spc = "returned" /\ ret[3] # None) => ~IsZero(ret[3][3])

\* C4 witness: the loop has run on a triple with n3 = 0 after it had already
\* selected a combination.
C4_Witness ==
    /\ spc = "for" /\ k > 0 /\ IsZero(cur[3])
    /\ best.best_combination # None

AllZero == Len(numbers) > 0 /\ \A i \in Index : IsZero(numbers[i])

\* C5: a call with a non-empty all-zero pool never returns normally.
C5_AllZeroPoolSignals == AllZero => spc # "returned"

\* C6: a call with target == 0 never returns normally, whatever the pool.
C6_ZeroTargetSignals == IsZero(target) => spc # "returned"


\* -------------------------------------------------- properties: statistics
\* C7: the statistics of fewer than 2 errors raise an error and return no
\* record; nothing stands in for the undefined deviation and variance.
C7_TooFewSamplesRaise ==
    (stpc = "done" /\ Len(errors) < 2) =>
        (stats.exc = "StatisticsError" /\ stats.value = None)

\* C7 witness: the call on a single-element list has raised.
C7_Witness ==
    stpc = "done" /\ Len(errors) = 1 /\ stats.exc = "StatisticsError"

\* ----------------------------------------------------- properties: analyze
\* The largest of the collected errors.
MaxError ==
    CHOOSE e \in {all_errors[i] : i \in DOMAIN all_errors} :
        \A j \in DOMAIN all_errors : ~FLess(e, all_errors[j])

\* C8: the rating is Exceptional for max < 1.0, Superior for 1.0 <= max < 5.0,
\* Satisfactory for 5.0 <= max < 10.0 and Limited for max >= 10.0, and is
\* always one of the four.
C8_RatingThresholds ==
    apc = "done" =>
        /\ reliability \in {"Exceptional", "Superior", "Satisfactory", "Limited"}
        /\ reliability = "Exceptional" <=> FLess(MaxError, Float(1))
        /\ reliability = "Superior" <=>
              (~FLess(MaxError, Float(1)) /\ FLess(MaxError, Float(5)))
        /\ reliability = "Satisfactory" <=>
              (~FLess(MaxError, Float(5)) /\ FLess(MaxError, Float(10)))
        /\ reliability = "Limited" <=> ~FLess(MaxError, Float(10))

\* C8 witness: a run whose maximum error is exactly 1.0 was rated Superior.
C8_Witness ==
    apc = "done" /\ MaxError = Float(1) /\ reliability = "Superior"

\* The number of collected errors strictly below t.
StrictlyBelow(t) ==
    Cardinality({i \in DOMAIN all_errors : FLess(all_errors[i], Float(t))})

\* C9: for each threshold 1.0, 5.0, 10.0 the reported count is the number of
\* collected errors strictly below it, and the reported denominator and
\* fraction are over the number of datasets whose errors were collected; the
\* counts of the errors [0.5, 2.0, 7.0, 15.0] are 1, 2 and 3.
C9_ThresholdCounts ==
    /\ apc \in {"conclusion", "done"} =>
          /\ Len(all_errors) = Len(datasets)
          /\ \A r \in 1 .. 3 :
                LET t == <<1, 5, 10>>[r]
                IN  /\ confidence_intervals[r] = <<t, StrictlyBelow(t)>>
                    /\ tolerance_table[r].count = StrictlyBelow(t)
                    /\ tolerance_table[r].out_of = Len(all_errors)
                    /\ tolerance_table[r].percent * Len(all_errors)
                          = 1000 * StrictlyBelow(t)
    /\ LET example == <<Rat(1, 2), Float(2), Float(7), Float(15)>>
       IN  <<CountBelow(example, 1), CountBelow(example, 5),
             CountBelow(example, 10)>> = <<1, 2, 3>>

\* C9 witness: the counts were reported for errors of which some equal the
\* threshold 5.0 and others lie below it.
C9_Witness ==
    /\ apc = "done"
    /\ \E i \in DOMAIN all_errors : all_errors[i] = Float(5)
    /\ tolerance_table[2].count > 0
    /\ tolerance_table[2].count < Len(all_errors)

\* C10: once a dataset's search has failed no later dataset is searched, the
\* statistics, threshold counts and rating are never computed, and
\* self.results holds no entries of the datasets processed before.
C10_FailureLeavesNoPartialResults ==
    apc = "raised" =>
        /\ metrics = None /\ confidence_intervals = <<>>
        /\ tolerance_table = <<>> /\ reliability = None
        /\ results = <<>>

\* The part of C10 that the code keeps: after a failure the later steps of
\* analyze have not run and never run.
AbortStopsPipeline ==
    apc = "raised" =>
        /\ metrics = None /\ confidence_intervals = <<>>
        /\ tolerance_table = <<>> /\ reliability = None
        /\ Len(results) < Len(datasets)
        /\ ~ENABLED (AnalyzeDataset \/ AnalyzeStatistics \/ AnalyzePrecision
                     \/ AnalyzeConclusion)


\* C11: a call of the search with an empty pool never returns normally.
C11_EmptyPoolSignals == Len(numbers) = 0 => spc # "returned"

\* The part of C11 that the code keeps: analyze records nothing for a dataset
\* whose pool is empty, does not go past it, and ends with an exception.
EmptyPoolAbortsRun ==
    /\ \A i \in 1 .. Len(results) : datasets[i].numbers # <<>>
    /\ \A i \in 1 .. Len(datasets) :
          datasets[i].numbers = <<>> =>
              /\ Len(all_errors) < i
              /\ apc \notin {"precision", "conclusion", "done"}
              /\ (Len(all_errors) = i - 1 /\ apc # "loop") =>
                    (apc = "raised" /\ exc = "TypeError")


\* C12: for at least 2 errors the statistics are: min and max the smallest and
\* largest element, range = max - min, iqr = q3 - q1, mean the arithmetic
\* mean, median the middle value of the sorted list (the average of the two
\* middle values for an even count), variance the sample variance over n - 1;
\* none depends on the order of the list. [1.2, 2.3, 0.8, 1.5] gives mean
\* 1.45, min 0.8, max 2.3, range 1.5.
Reorderings ==
    LET n == Len(errors)
        perms == {p \in [1 .. n -> 1 .. n] : \A i, j \in 1 .. n : p[i] = p[j] => i = j}
    IN  {[i \in 1 .. n |-> errors[p[i]]] : p \in perms}

Ascending ==
    CHOOSE s \in Reorderings : \A i \in 1 .. Len(s) - 1 : ~FLess(s[i + 1], s[i])

ExampleErrors == <<Rat(12, 10), Rat(23, 10), Rat(8, 10), Rat(15, 10)>>

ReportedCount(r) == confidence_intervals[r][2]

\* C13: in a completed run the rating is Exceptional exactly when the count
\* below 1.0 is the number of datasets, Superior exactly when the count below
\* 5.0 is and the count below 1.0 is not, Satisfactory exactly when the count
\* below 10.0 is and the count below 5.0 is not, Limited exactly when the
\* count below 10.0 is less than the number of datasets; and the counts do
\* not decrease from threshold to threshold and stay within that number.
C13_RatingAgreesWithCounts ==
    apc = "done" =>
        LET n == Len(datasets)
        IN  /\ reliability = "Exceptional" <=> ReportedCount(1) = n
            /\ reliability = "Superior" <=>
                  (ReportedCount(2) = n /\ ReportedCount(1) # n)
            /\ reliability = "Satisfactory" <=>
                  (ReportedCount(3) = n /\ ReportedCount(2) # n)
            /\ reliability = "Limited" <=> ReportedCount(3) < n
            /\ ReportedCount(1) <= ReportedCount(2)
            /\ ReportedCount(2) <= ReportedCount(3)
            /\ ReportedCount(3) <= n

\* C13 witness: a completed run rated Superior in which some but not all
\* errors are below 1.0 and all are below 5.0.
C13_Witness ==
    /\ apc = "done" /\ reliability = "Superior"
    /\ ReportedCount(1) > 0 /\ ReportedCount(1) < Len(datasets)
    /\ ReportedCount(2) = Len(datasets)

=============================================================================
